---- MODULE Spec2Model ----
(***************************************************************************)
(* Model of text/harfbuzz.c: the two array accessors get_glyph_info and    *)
(* get_glyph_position, each `return &p[i];` with an `unsigned int` index.  *)
(*                                                                         *)
(* Addresses are machine words.  A word is kept as four little-endian      *)
(* 16-bit limbs so that 64-bit pointer arithmetic is computed exactly, at  *)
(* its real width, with its real carries and its real wrap-around.  An     *)
(* `unsigned int` index is two limbs (32 bits).                            *)
(*                                                                         *)
(* What the C file leaves to the build is chosen in Init: the pointer      *)
(* width of the target (32 or 64 bits) and the sizes of the two record     *)
(* types that <hb.h> declares.  What it leaves to its caller is chosen in  *)
(* Init as well: the two arrays (base addresses, element count, contents)  *)
(* that a shaping call handed out.                                         *)
(***************************************************************************)
EXTENDS Integers, Sequences, FiniteSets

VARIABLES
    ptrBits,      \* build: width of a pointer, in bits
    sizeofInfo,   \* build: sizeof(hb_glyph_info_t)
    sizeofPos,    \* build: sizeof(hb_glyph_position_t)
    infoBase,     \* caller: base address of the hb_glyph_info_t array
    posBase,      \* caller: base address of the hb_glyph_position_t array
    nglyphs,      \* caller: element count of both arrays
    mem,          \* contents of the two arrays
    allocated,    \* base addresses of the live heap blocks
    errno,        \* the C error state
    pc,           \* per thread: "idle", "in_call", "returned"
    args,         \* per thread: the arguments of its call
    ret,          \* per thread: the pointer its call returned
    overlapped    \* per thread: another thread was inside an accessor when
                  \* this thread's call ran

build  == <<ptrBits, sizeofInfo, sizeofPos>>
shared == <<infoBase, posBase, nglyphs, mem, allocated, errno>>
vars   == <<ptrBits, sizeofInfo, sizeofPos, infoBase, posBase, nglyphs, mem,
            allocated, errno, pc, args, ret, overlapped>>

-----------------------------------------------------------------------------
(* Bounds of the model. *)

\* Largest element count of an array.
MaxGlyphs == 3

\* Largest of the small indices a call is made with (valid ones, the
\* one-past-the-end one and out-of-range ones).
MaxIndex == 4

Threads == {"t1", "t2"}

-----------------------------------------------------------------------------
(* Machine words. *)

Radix == 2^16

\* Pointer widths of the targets the file is built for.
PtrWidths == {32, 64}

\* sizeof of a record type of <hb.h>; 20 is the size of both record types in
\* the library's ABI, the other size keeps the two accessors apart.
RecordSizes == {12, 20}

NullPtr == <<0, 0, 0, 0>>

\* An unsigned int converted to a word: the index is zero-extended.
ZeroExtend(i) == <<i[1], i[2], 0, 0>>

RECURSIVE AddLimbs(_, _, _, _)
AddLimbs(a, b, j, carry) ==
    IF j > Len(a) THEN <<>>
    ELSE LET s == a[j] + b[j] + carry
         IN  <<s % Radix>> \o AddLimbs(a, b, j + 1, s \div Radix)

\* a + b modulo 2^64.
AddW(a, b) == AddLimbs(a, b, 1, 0)

RECURSIVE MulLimbs(_, _, _, _)
MulLimbs(a, k, j, carry) ==
    IF j > Len(a) THEN <<>>
    ELSE LET s == a[j] * k + carry
         IN  <<s % Radix>> \o MulLimbs(a, k, j + 1, s \div Radix)

\* a * k modulo 2^64, for a small k.
MulW(a, k) == MulLimbs(a, k, 1, 0)

\* A word reduced to the pointer width of the build.
Trunc(a, bits) == [j \in 1..4 |-> IF j * 16 <= bits THEN a[j] ELSE 0]

\* C's p + i (that is &p[i]) for a pointer to records of `size` bytes: the
\* index is converted to the pointer's width, scaled by the record size and
\* added to the address.  For an index beyond the end of the array the C
\* standard leaves the result undefined; the accessors are external
\* functions that see neither the array nor its length, so what a build
\* produces for them is this same scaled addition at the target's pointer
\* width, wrapping at that width.  The builds differ in ptrBits, which Init
\* leaves open.
PtrAdd(p, i, size) == Trunc(AddW(p, MulW(ZeroExtend(i), size)), ptrBits)

-----------------------------------------------------------------------------
(* The two accessors. *)

\* Variants of the accessors, each with one plausible slip.

\* The index is not scaled by the record size (byte arithmetic).
get_glyph_info_bytes(info, i) == PtrAdd(info, i, 1)

\* The index is scaled by the size of a pointer (sizeof(info)) instead of
\* the size of a record (sizeof(*info)).
get_glyph_info_ptrsize(info, i) == PtrAdd(info, i, ptrBits \div 8)

\* One-based indexing: &info[i + 1].
get_glyph_info_next(info, i) == PtrAdd(info, AddLimbs(i, <<1, 0>>, 1, 0), sizeofInfo)

\* The byte offset is computed in unsigned int (32 bits) and then widened.
get_glyph_info_u32(info, i) ==
    Trunc(AddW(info, Trunc(MulW(ZeroExtend(i), sizeofInfo), 32)), ptrBits)

\* A bounds check against the element count that returns NULL.
get_glyph_info_checked(info, i) ==
    IF i[2] = 0 /\ i[1] < nglyphs THEN PtrAdd(info, i, sizeofInfo) ELSE NullPtr

\* The index goes through a static variable that all calls share: a call
\* may read the index another call stored.
get_glyph_info_static(info, i) ==
    LET S == {args[u].i : u \in {v \in DOMAIN pc : pc[v] # "idle"
                                    /\ args[v].fn = "get_glyph_info"}}
        m == CHOOSE x \in S : \A y \in S : y[2] < x[2] \/ (y[2] = x[2] /\ y[1] <= x[1])
    IN  PtrAdd(info, m, sizeofInfo)

\* The position accessor scales by the size of the other record type.
get_glyph_position_infosize(pos, i) == PtrAdd(pos, i, sizeofInfo)

\* hb_glyph_info_t *get_glyph_info(hb_glyph_info_t *info, unsigned int i)
get_glyph_info(info, i) == PtrAdd(info, i, sizeofInfo)

\* hb_glyph_position_t *get_glyph_position(hb_glyph_position_t *pos, unsigned int i)
get_glyph_position(pos, i) == PtrAdd(pos, i, sizeofPos)

-----------------------------------------------------------------------------
(* The caller's side: the arrays and the calls. *)

Functions == {"get_glyph_info", "get_glyph_position"}

\* Heap layouts: where the two arrays lie.  The second makes the address
\* arithmetic carry between limbs; the third lies above 2^32.
Layouts(bits) ==
    {[info |-> <<4096, 0, 0, 0>>,  pos |-> <<8192, 0, 0, 0>>],
     [info |-> <<65520, 0, 0, 0>>, pos |-> <<65528, 1, 0, 0>>]}
    \cup (IF bits = 64
          THEN {[info |-> <<65520, 65535, 32767, 0>>, pos |-> <<4096, 0, 32512, 0>>]}
          ELSE {})

\* The records of the arrays are opaque to the accessors.
InitialMem(n) ==
    [info |-> [j \in 1..n |-> [glyph |-> j]],
     pos  |-> [j \in 1..n |-> [advance |-> 10 * j]]]

NoArgs == [fn |-> "none", base |-> NullPtr, i |-> <<0, 0>>]

\* The small indices: every valid one and some out-of-range ones.
SmallIndices == {<<j, 0>> : j \in 0..MaxIndex}

\* Indices over the whole range of unsigned int: 0, 1, 2^16 - 1, 2^16,
\* 214748364 and 214748365 (the last index whose offset with a 20-byte
\* record is below 2^32, and the first whose offset is not), 2^31, 2^32 - 1.
WideIndices ==
    {<<0, 0>>, <<1, 0>>, <<65535, 0>>, <<0, 1>>, <<52428, 3276>>,
     <<52429, 3276>>, <<0, 32768>>, <<65535, 65535>>}

Init ==
    /\ ptrBits \in PtrWidths
    /\ sizeofInfo \in RecordSizes
    /\ sizeofPos \in RecordSizes
    /\ \E l \in Layouts(ptrBits) : infoBase = l.info /\ posBase = l.pos
    /\ nglyphs \in 1..MaxGlyphs
    /\ mem = InitialMem(nglyphs)
    /\ allocated = {infoBase, posBase}
    /\ errno = 0
    /\ pc = [t \in Threads |-> "idle"]
    /\ args = [t \in Threads |-> NoArgs]
    /\ ret = [t \in Threads |-> NullPtr]
    /\ overlapped = [t \in Threads |-> FALSE]

\* A thread calls an accessor on the array of its type with index i.
Invoke(t, f, i) ==
    /\ pc[t] = "idle"
    /\ pc' = [pc EXCEPT ![t] = "in_call"]
    /\ args' = [args EXCEPT ![t] =
                  [fn |-> f,
                   base |-> IF f = "get_glyph_info" THEN infoBase ELSE posBase,
                   i |-> i]]
    /\ UNCHANGED <<build, shared, ret, overlapped>>

InvokeSmall(t) == \E f \in Functions, i \in SmallIndices : Invoke(t, f, i)

InvokeWide(t) == \E f \in Functions, i \in WideIndices : Invoke(t, f, i)

\* Variant of the call with a slip: the body writes the record it addresses.
Call_get_glyph_info_writes(t) ==
    /\ pc[t] = "in_call"
    /\ args[t].fn = "get_glyph_info"
    /\ ret' = [ret EXCEPT ![t] = PtrAdd(args[t].base, args[t].i, sizeofInfo)]
    /\ pc' = [pc EXCEPT ![t] = "returned"]
    /\ overlapped' = [overlapped EXCEPT ![t] =
                        \E u \in DOMAIN pc \ {t} : pc[u] = "in_call"]
    /\ mem' = [mem EXCEPT !.info =
                 [j \in DOMAIN mem.info |->
                    IF j = args[t].i[1] + 1 /\ args[t].i[2] = 0
                    THEN [glyph |-> 0] ELSE mem.info[j]]]
    /\ UNCHANGED <<build, infoBase, posBase, nglyphs, allocated, errno, args>>

\* The body of get_glyph_info runs in thread t and returns.
Call_get_glyph_info(t) ==
    /\ pc[t] = "in_call"
    /\ args[t].fn = "get_glyph_info"
    /\ ret' = [ret EXCEPT ![t] = get_glyph_info(args[t].base, args[t].i)]
    /\ pc' = [pc EXCEPT ![t] = "returned"]
    /\ overlapped' = [overlapped EXCEPT ![t] =
                        \E u \in Threads \ {t} : pc[u] = "in_call"]
    /\ UNCHANGED <<build, shared, args>>

\* The body of get_glyph_position runs in thread t and returns.
Call_get_glyph_position(t) ==
    /\ pc[t] = "in_call"
    /\ args[t].fn = "get_glyph_position"
    /\ ret' = [ret EXCEPT ![t] = get_glyph_position(args[t].base, args[t].i)]
    /\ pc' = [pc EXCEPT ![t] = "returned"]
    /\ overlapped' = [overlapped EXCEPT ![t] =
                        \E u \in Threads \ {t} : pc[u] = "in_call"]
    /\ UNCHANGED <<build, shared, args>>

\* The caller is done with the returned pointer.
Resume(t) ==
    /\ pc[t] = "returned"
    /\ pc' = [pc EXCEPT ![t] = "idle"]
    /\ args' = [args EXCEPT ![t] = NoArgs]
    /\ ret' = [ret EXCEPT ![t] = NullPtr]
    /\ overlapped' = [overlapped EXCEPT ![t] = FALSE]
    /\ UNCHANGED <<build, shared>>

Next ==
    \E t \in Threads :
        \/ InvokeSmall(t)
        \/ Call_get_glyph_info(t)
        \/ Call_get_glyph_position(t)
        \/ Resume(t)

Spec == Init /\ [][Next]_vars

NextWide ==
    \E t \in Threads :
        \/ InvokeWide(t)
        \/ Call_get_glyph_info(t)
        \/ Call_get_glyph_position(t)
        \/ Resume(t)

SpecWide == Init /\ [][NextWide]_vars

-----------------------------------------------------------------------------
(* Reference arithmetic of the properties.  It is independent of the       *)
(* accessors' arithmetic: addresses are compared by subtracting them, and  *)
(* a product is undone by a long division.                                 *)

RECURSIVE SubLimbs(_, _, _, _)
SubLimbs(a, b, j, borrow) ==
    IF j > Len(a) THEN <<>>
    ELSE LET d == a[j] - b[j] - borrow
         IN  IF d < 0 THEN <<d + Radix>> \o SubLimbs(a, b, j + 1, 1)
                      ELSE <<d>> \o SubLimbs(a, b, j + 1, 0)

\* a - b modulo 2^64.
SubW(a, b) == SubLimbs(a, b, 1, 0)

RECURSIVE DivLimbs(_, _, _, _)
DivLimbs(a, k, j, r) ==
    IF j = 0 THEN [quot |-> <<>>, rem |-> r]
    ELSE LET cur  == r * Radix + a[j]
             rest == DivLimbs(a, k, j - 1, cur % k)
         IN  [quot |-> rest.quot \o <<cur \div k>>, rem |-> rest.rem]

\* Quotient and remainder of the word a by a small k.
DivW(a, k) == DivLimbs(a, k, Len(a), 0)

\* A word that is a number below 2^30, and that number.
IsSmallWord(a) == a[2] < 2^14 /\ a[3] = 0 /\ a[4] = 0
WordToInt(a) == a[1] + Radix * a[2]

\* The word a is the number m.
WordIs(a, m) == IsSmallWord(a) /\ WordToInt(a) = m

Returned(t, f) == pc[t] = "returned" /\ args[t].fn = f
HasReturned(t) == pc[t] = "returned"

\* The index is below the element count of the array.
InRange(i) == i[2] = 0 /\ i[1] < nglyphs

\* The record size of the array a call is made on.
RecordSize(t) == IF args[t].fn = "get_glyph_info" THEN sizeofInfo ELSE sizeofPos

\* The distance in bytes from the base a call was given to the pointer it
\* returned.
ByteOffset(t) == SubW(ret[t], args[t].base)

SharedAsConstructed ==
    /\ mem = InitialMem(nglyphs)
    /\ allocated = {infoBase, posBase}
    /\ errno = 0

-----------------------------------------------------------------------------
(* C1: get_glyph_info(B, i) with 0 <= i < n returns B + i*k for an array   *)
(* of n records of k bytes at B; with k = 20, n = 3 and B = 0x1000 it      *)
(* returns 0x1000, 0x1014 and 0x1028 for i = 0, 1, 2.                      *)
C1_InfoAddress ==
    \A t \in Threads :
        (Returned(t, "get_glyph_info") /\ InRange(args[t].i)) =>
            /\ args[t].base = infoBase
            /\ WordIs(ByteOffset(t), args[t].i[1] * sizeofInfo)
            /\ (sizeofInfo = 20 /\ nglyphs = 3 /\ infoBase = <<4096, 0, 0, 0>>) =>
                  /\ args[t].i = <<0, 0>> => ret[t] = <<4096, 0, 0, 0>>
                  /\ args[t].i = <<1, 0>> => ret[t] = <<4116, 0, 0, 0>>
                  /\ args[t].i = <<2, 0>> => ret[t] = <<4136, 0, 0, 0>>

C1_Witness ==
    /\ sizeofInfo = 20 /\ nglyphs = 3 /\ infoBase = <<4096, 0, 0, 0>>
    /\ Returned("t1", "get_glyph_info") /\ args["t1"].i = <<1, 0>>
    /\ ret["t1"] = <<4116, 0, 0, 0>>
    /\ Returned("t2", "get_glyph_info") /\ args["t2"].i = <<2, 0>>
    /\ ret["t2"] = <<4136, 0, 0, 0>>

(* C2: get_glyph_position(B, i) with 0 <= i < n returns B + i*k', where k' *)
(* is the size of a GlyphPosition record, not of a GlyphInfo record.       *)
C2_PositionAddress ==
    \A t \in Threads :
        (Returned(t, "get_glyph_position") /\ InRange(args[t].i)) =>
            /\ args[t].base = posBase
            /\ WordIs(ByteOffset(t), args[t].i[1] * sizeofPos)

C2_Witness ==
    \E t \in Threads :
        /\ Returned(t, "get_glyph_position")
        /\ sizeofPos # sizeofInfo
        /\ nglyphs = 3
        /\ args[t].i = <<2, 0>>
        /\ WordIs(ByteOffset(t), 2 * sizeofPos)

(* C3: with index 0 each accessor returns exactly the base address it was  *)
(* given.                                                                  *)
C3_IndexZeroIsBase ==
    \A t \in Threads :
        (HasReturned(t) /\ args[t].i = <<0, 0>>) => ret[t] = args[t].base

C3_Witness ==
    /\ Returned("t1", "get_glyph_info") /\ args["t1"].i = <<0, 0>>
    /\ ret["t1"] = infoBase
    /\ Returned("t2", "get_glyph_position") /\ args["t2"].i = <<0, 0>>
    /\ ret["t2"] = posBase
    /\ infoBase = <<65520, 65535, 32767, 0>>

(* C4: with i = n-1 the accessor returns the address of the last record,   *)
(* B + (n-1)*k, and for every valid index the whole k-byte record at the   *)
(* returned address lies inside the array's extent [B, B + n*k).           *)
C4_RecordInsideExtent ==
    \A t \in Threads :
        (HasReturned(t) /\ InRange(args[t].i)) =>
            LET k   == RecordSize(t)
                off == ByteOffset(t)
            IN  /\ IsSmallWord(off)
                /\ WordToInt(off) + k <= nglyphs * k
                /\ IsSmallWord(SubW(AddW(ret[t], <<k, 0, 0, 0>>), args[t].base))
                /\ args[t].i[1] = nglyphs - 1 =>
                      WordToInt(off) = (nglyphs - 1) * k

C4_Witness ==
    \E t \in Threads :
        /\ HasReturned(t)
        /\ nglyphs = MaxGlyphs
        /\ args[t].i = <<nglyphs - 1, 0>>
        /\ WordIs(ByteOffset(t), (nglyphs - 1) * RecordSize(t))

(* C5: two calls of an accessor with the same (B, i) return the same       *)
(* address, whatever other calls were made before or in between.           *)
C5_Deterministic ==
    \A t, u \in Threads :
        (HasReturned(t) /\ HasReturned(u) /\ args[t] = args[u]) => ret[t] = ret[u]

C5_Witness ==
    /\ HasReturned("t1") /\ HasReturned("t2")
    /\ args["t1"] = args["t2"]
    /\ args["t1"].i = <<MaxIndex, 0>>
    /\ ret["t1"] = ret["t2"]
    /\ ret["t1"] # args["t1"].base

(* C6: a call of an accessor changes nothing but the caller's view of its  *)
(* own call: the arrays' contents, their base pointers, the set of         *)
(* allocated blocks, the error state, the call's arguments and the other   *)
(* threads' state are as before.                                           *)
C6_NoSideEffect ==
    [][\A t \in Threads :
          (pc[t] = "in_call" /\ pc'[t] = "returned") =>
              /\ UNCHANGED <<build, shared>>
              /\ args' = args
              /\ \A u \in Threads \ {t} : pc'[u] = pc[u] /\ ret'[u] = ret[u]]_vars

C6_Witness ==
    \E t \in Threads :
        /\ Returned(t, "get_glyph_info")
        /\ InRange(args[t].i)
        /\ args[t].i[1] = 1
        /\ mem.info[2] = [glyph |-> 2]
        /\ SharedAsConstructed

(* C7: a call that ran while another thread was inside an accessor returns *)
(* what it returns when run alone, B + i*k, and the shared state is as the *)
(* owner constructed it.                                                   *)
C7_InterleavingIndependent ==
    \A t \in Threads :
        (HasReturned(t) /\ overlapped[t]) =>
            /\ WordIs(ByteOffset(t), args[t].i[1] * RecordSize(t))
            /\ \A u \in Threads :
                  (HasReturned(u) /\ ~overlapped[u] /\ args[u] = args[t]) =>
                      ret[u] = ret[t]
            /\ SharedAsConstructed

C7_Witness ==
    /\ HasReturned("t1") /\ overlapped["t1"]
    /\ HasReturned("t2") /\ ~overlapped["t2"]
    /\ args["t1"] = args["t2"]
    /\ args["t1"].i = <<1, 0>>
    /\ ret["t1"] = ret["t2"]

(* C8: no error is detected or reported.  A call is never refused, the     *)
(* error state stays clear, and for an index i >= n the accessor returns   *)
(* the computed address B + i*k, which lies outside the records of the     *)
(* array, not an error value.                                              *)
C8_NoErrorReported ==
    /\ errno = 0
    /\ \A t \in Threads :
          pc[t] = "in_call" =>
              ENABLED (Call_get_glyph_info(t) \/ Call_get_glyph_position(t))
    /\ \A t \in Threads :
          (HasReturned(t) /\ ~InRange(args[t].i)) =>
              /\ WordIs(ByteOffset(t), args[t].i[1] * RecordSize(t))
              /\ WordToInt(ByteOffset(t)) >= nglyphs * RecordSize(t)
              /\ ret[t] # NullPtr

C8_Witness ==
    \E t \in Threads :
        /\ Returned(t, "get_glyph_info")
        /\ args[t].i = <<nglyphs + 1, 0>>
        /\ WordIs(ByteOffset(t), (nglyphs + 1) * sizeofInfo)
        /\ errno = 0

(* C9: over the valid indices each accessor is strictly increasing in the  *)
(* index: for i < j the returned addresses differ by exactly (j - i)*k     *)
(* with k > 0, so the records of distinct indices do not overlap.          *)
C9_StrictlyIncreasing ==
    \A t, u \in Threads :
        (/\ HasReturned(t) /\ HasReturned(u)
         /\ args[t].fn = args[u].fn
         /\ InRange(args[t].i) /\ InRange(args[u].i)
         /\ args[t].i[1] < args[u].i[1]) =>
            /\ RecordSize(t) > 0
            /\ WordIs(SubW(ret[u], ret[t]),
                      (args[u].i[1] - args[t].i[1]) * RecordSize(t))
            /\ ret[t] # ret[u]

C9_Witness ==
    /\ Returned("t1", "get_glyph_position") /\ Returned("t2", "get_glyph_position")
    /\ nglyphs = 3
    /\ args["t1"].i = <<0, 0>> /\ args["t2"].i = <<2, 0>>
    /\ WordIs(SubW(ret["t2"], ret["t1"]), 2 * sizeofPos)

(* C10: the index is an unsigned 32-bit integer (never negative), and on a *)
(* build with 64-bit pointers the byte offset added to B is the            *)
(* mathematical product i*k for every index in [0, 2^32 - 1]: it does not  *)
(* wrap modulo 2^32.                                                       *)
C10_OffsetDoesNotWrap ==
    \A t \in Threads :
        /\ Len(args[t].i) = 2
        /\ args[t].i[1] \in 0..(Radix - 1)
        /\ args[t].i[2] \in 0..(Radix - 1)
        /\ (HasReturned(t) /\ ptrBits = 64) =>
              LET d == DivW(ByteOffset(t), RecordSize(t))
              IN  d.rem = 0 /\ d.quot = ZeroExtend(args[t].i)

C10_Witness ==
    \E t \in Threads :
        /\ Returned(t, "get_glyph_info")
        /\ ptrBits = 64
        /\ sizeofInfo = 20
        /\ args[t].i = <<65535, 65535>>
        /\ ByteOffset(t) = <<65516, 65535, 19, 0>>

====
